---- MODULE Spec2Model ----
(***************************************************************************)
(* Model of package config (internal/config/config.go): the environment   *)
(* variables the process sees, and New, which reads them through the      *)
(* field parsers of the loader and returns a Config and an error.         *)
(*                                                                         *)
(* Go strings are sequences of one-character strings, so that TrimSpace   *)
(* and ToLower are computed character by character.  A nil pointer or a   *)
(* nil error is the empty sequence, a non-nil one a one-element sequence  *)
(* holding the value pointed to.  Durations are counted in seconds.       *)
(***************************************************************************)
EXTENDS Integers, Sequences, FiniteSets, TLC

VARIABLES
    env,     \* the process environment: a function from the set names to their values
    l,       \* the loader built by the most recent call of New
    cfg,     \* the Config pointer returned by the most recent call of New, Nil before any
    err,     \* the error returned by the most recent call of New, Nil before any
    called,  \* New has returned and the environment has not changed since
    prev,    \* the outcome of the call before, when made in this same environment
    earlier  \* the call before the most recent one recorded failures

vars == <<env, l, cfg, err, called, prev, earlier>>

\* At most MaxSet variables are set in the environment at once.
MaxSet == 2

Nil == <<>>

-----------------------------------------------------------------------------
(* The typed constants. *)

LogLevelDebug == <<"d", "e", "b", "u", "g">>
LogLevelInfo == <<"i", "n", "f", "o">>
LogLevelWarn == <<"w", "a", "r", "n">>
LogLevelError == <<"e", "r", "r", "o", "r">>

LogFormatText == <<"t", "e", "x", "t">>
LogFormatJSON == <<"j", "s", "o", "n">>

LogOutputStdout == <<"s", "t", "d", "o", "u", "t">>
LogOutputStderr == <<"s", "t", "d", "e", "r", "r">>

EnvLogLevel == "LOG_LEVEL"
EnvLogFormat == "LOG_FORMAT"
EnvLogOutput == "LOG_OUTPUT"
EnvServerAddress == "SERVER_ADDRESS"
EnvServerReadTimeout == "SERVER_READ_TIMEOUT"
EnvServerReadHeaderTimeout == "SERVER_READ_HEADER_TIMEOUT"
EnvServerWriteTimeout == "SERVER_WRITE_TIMEOUT"
EnvServerIdleTimeout == "SERVER_IDLE_TIMEOUT"
EnvServerShutdownTimeout == "SERVER_SHUTDOWN_TIMEOUT"

DefaultLogLevel == LogLevelInfo
DefaultLogFormat == LogFormatText
DefaultLogOutput == LogOutputStdout
DefaultServerAddress ==
    <<"l", "o", "c", "a", "l", "h", "o", "s", "t", ":", "8", "0", "8", "0">>
DefaultServerReadTimeout == 5
DefaultServerReadHeaderTimeout == 2
DefaultServerWriteTimeout == 10
DefaultServerIdleTimeout == 60
DefaultServerShutdownTimeout == 15

-----------------------------------------------------------------------------
(* strings.TrimSpace and strings.ToLower, as the parsers use them. *)

WhiteSpace == {" ", "\t", "\n", "\r"}

UpperCase == <<"A", "B", "C", "D", "E", "F", "G", "H", "I", "J", "K", "L", "M",
               "N", "O", "P", "Q", "R", "S", "T", "U", "V", "W", "X", "Y", "Z">>
LowerCase == <<"a", "b", "c", "d", "e", "f", "g", "h", "i", "j", "k", "l", "m",
               "n", "o", "p", "q", "r", "s", "t", "u", "v", "w", "x", "y", "z">>

ToLowerChar(c) ==
    IF \E i \in 1..Len(UpperCase) : UpperCase[i] = c
    THEN LowerCase[CHOOSE i \in 1..Len(UpperCase) : UpperCase[i] = c]
    ELSE c

ToLower(s) == [i \in 1..Len(s) |-> ToLowerChar(s[i])]

TrimSpace(s) ==
    LET keep == {i \in 1..Len(s) : s[i] \notin WhiteSpace}
    IN  IF keep = {} THEN <<>>
        ELSE LET first == CHOOSE i \in keep : \A j \in keep : i <= j
                 last == CHOOSE i \in keep : \A j \in keep : j <= i
             IN  SubSeq(s, first, last)

-----------------------------------------------------------------------------
(* The environment. *)

EnvKeys ==
    <<EnvLogLevel, EnvLogFormat, EnvLogOutput, EnvServerAddress,
      EnvServerReadTimeout, EnvServerReadHeaderTimeout, EnvServerWriteTimeout,
      EnvServerIdleTimeout, EnvServerShutdownTimeout>>

Keys == {EnvKeys[i] : i \in 1..Len(EnvKeys)}

DurationKeys ==
    {EnvServerReadTimeout, EnvServerReadHeaderTimeout, EnvServerWriteTimeout,
     EnvServerIdleTimeout, EnvServerShutdownTimeout}

\* The values the environment may give each variable.
EnvValues(key) ==
    CASE key = EnvLogLevel ->
           { <<"D", "e", "b", "u", "g">>,
             <<" ", "I", "N", "F", "O", "\n">>,
             <<"\t", "w", "a", "r", "n">>,
             <<"E", "R", "R", "O", "R", " ">>,
             <<"v", "e", "r", "b", "o", "s", "e">>,
             <<" ", "F", "a", "t", "a", "l", " ">>,
             <<>> }
      [] key = EnvLogFormat ->
           { <<"J", "S", "O", "N">>,
             <<" ", "T", "e", "x", "t", " ">>,
             <<"x", "m", "l">>,
             <<" ", "X", "M", "L">>,
             <<" ">> }
      [] key = EnvLogOutput ->
           { <<"S", "T", "D", "O", "U", "T">>,
             <<" ", "s", "t", "d", "E", "r", "r", "\n">>,
             <<"/", "v", "a", "r", "/", "A", "p", "p", ".", "l", "o", "g">>,
             <<" ", "/", "T", "m", "p", " ">>,
             <<>>,
             <<" ", "\t">> }
      [] key = EnvServerAddress ->
           { <<":", "3", "0", "0", "0">>,
             <<"H", "o", "s", "t", ":", "9", "9", "9", "9", "9">> }
      [] OTHER ->
           { <<"b", "a", "d">>,
             <<"3", "0", "s">> }

Restrict(f, S) == [k \in S |-> f[k]]

\* os.LookupEnv
LookupEnv(key) ==
    IF key \in DOMAIN env
    THEN [val |-> env[key], ok |-> TRUE]
    ELSE [val |-> <<>>, ok |-> FALSE]

getEnv(key, defaultValue) ==
    LET r == LookupEnv(key)
    IN  IF r.ok THEN r.val ELSE defaultValue

-----------------------------------------------------------------------------
(* The loader.  A method that appends to l.errs yields its return value   *)
(* and the loader it leaves behind.                                        *)

\* fmt.Errorf("<what> (%s) got=%q", key, got): the text of the failure, the
\* variable it names and the value it quotes.
Errorf(what, key, got) == [what |-> what, key |-> key, got |-> got]

\* A loader kept between calls instead of built by each.
newLoaderShared == l

newLoader == [errs |-> <<>>]

\* The failure put in front of the collection instead of behind it.
appendErrorFront(ld, e) == [ld EXCEPT !.errs = <<e>> \o ld.errs]

appendError(ld, e) == [ld EXCEPT !.errs = Append(ld.errs, e)]

\* The level matched as written, without lower-casing.
logLevelCaseSensitive(ld) ==
    LET e == getEnv(EnvLogLevel, DefaultLogLevel)
        val == TrimSpace(e)
    IN  IF val \in {LogLevelDebug, LogLevelInfo, LogLevelWarn, LogLevelError}
        THEN [ret |-> val, l |-> ld]
        ELSE [ret |-> <<>>,
              l |-> appendError(ld, Errorf("invalid log level", EnvLogLevel, e))]

logLevel(ld) ==
    LET e == getEnv(EnvLogLevel, DefaultLogLevel)
        val == ToLower(TrimSpace(e))
    IN  IF val \in {LogLevelDebug, LogLevelInfo, LogLevelWarn, LogLevelError}
        THEN [ret |-> val, l |-> ld]
        ELSE [ret |-> <<>>,
              l |-> appendError(ld, Errorf("invalid log level", EnvLogLevel, e))]

\* The failure quoting the normalized value instead of the one received.
logFormatQuotesNormalized(ld) ==
    LET e == getEnv(EnvLogFormat, DefaultLogFormat)
        val == ToLower(TrimSpace(e))
    IN  IF val \in {LogFormatText, LogFormatJSON}
        THEN [ret |-> val, l |-> ld]
        ELSE [ret |-> <<>>,
              l |-> appendError(ld, Errorf("invalid log format", EnvLogFormat, val))]

logFormat(ld) ==
    LET e == getEnv(EnvLogFormat, DefaultLogFormat)
        val == ToLower(TrimSpace(e))
    IN  IF val \in {LogFormatText, LogFormatJSON}
        THEN [ret |-> val, l |-> ld]
        ELSE [ret |-> <<>>,
              l |-> appendError(ld, Errorf("invalid log format", EnvLogFormat, e))]

\* The custom destination returned lower-cased, like the two streams.
logOutputLowerCased(ld) ==
    LET e == getEnv(EnvLogOutput, DefaultLogOutput)
        val == TrimSpace(e)
        v == ToLower(val)
    IN  IF v \in {LogOutputStdout, LogOutputStderr}
        THEN [ret |-> v, l |-> ld]
        ELSE IF val = <<>>
        THEN [ret |-> <<>>,
              l |-> appendError(ld, Errorf("invalid log output", EnvLogOutput, e))]
        ELSE [ret |-> v, l |-> ld]

logOutput(ld) ==
    LET e == getEnv(EnvLogOutput, DefaultLogOutput)
        val == TrimSpace(e)
        v == ToLower(val)
    IN  IF v \in {LogOutputStdout, LogOutputStderr}
        THEN [ret |-> v, l |-> ld]
        ELSE IF val = <<>>
        THEN [ret |-> <<>>,
              l |-> appendError(ld, Errorf("invalid log output", EnvLogOutput, e))]
        ELSE [ret |-> val, l |-> ld]

\* A single failure taken for none.
ErrOffByOne(ld) ==
    IF Len(ld.errs) <= 1 THEN Nil ELSE <<[joined |-> ld.errs]>>

\* errors.Join(l.errs...), or nil when nothing was appended.
Err(ld) ==
    IF Len(ld.errs) = 0 THEN Nil ELSE <<[joined |-> ld.errs]>>

\* The Config literal of New: the three fields it names, the others zero.
Config(level, format, output) ==
    [logLevel |-> level,
     logFormat |-> format,
     logOutput |-> output,
     serverAddress |-> <<>>,
     serverReadTimeout |-> 0,
     serverReadHeaderTimeout |-> 0,
     serverWriteTimeout |-> 0,
     serverIdleTimeout |-> 0,
     serverShutdownTimeout |-> 0]

-----------------------------------------------------------------------------
(* The operations. *)

Init ==
    /\ env = [k \in {} |-> <<>>]
    /\ l = [errs |-> <<>>]
    /\ cfg = Nil
    /\ err = Nil
    /\ called = FALSE
    /\ prev = Nil
    /\ earlier = FALSE

\* The environment gives key the value val.  What an earlier call returned
\* was the outcome for the environment as it was.
Setenv(key, val) ==
    /\ Cardinality(DOMAIN env \cup {key}) <= MaxSet
    /\ env' = [k \in DOMAIN env \cup {key} |-> IF k = key THEN val ELSE env[k]]
    /\ env' # env
    /\ cfg' = Nil
    /\ err' = Nil
    /\ called' = FALSE
    /\ prev' = Nil
    /\ earlier' = FALSE
    /\ UNCHANGED l

Unsetenv(key) ==
    /\ key \in DOMAIN env
    /\ env' = Restrict(env, DOMAIN env \ {key})
    /\ cfg' = Nil
    /\ err' = Nil
    /\ called' = FALSE
    /\ prev' = Nil
    /\ earlier' = FALSE
    /\ UNCHANGED l

New ==
    LET l0 == newLoader
        r1 == logLevel(l0)
        r2 == logFormat(r1.l)
        r3 == logOutput(r2.l)
        c == Config(r1.ret, r2.ret, r3.ret)
        e == Err(r3.l)
    IN  /\ l' = r3.l
        /\ IF e # Nil
           THEN /\ cfg' = Nil
                /\ err' = <<[msg |-> "failed to load config", wrapped |-> e[1]]>>
           ELSE /\ cfg' = <<c>>
                /\ err' = Nil
        /\ called' = TRUE
        /\ prev' = IF called THEN <<[cfg |-> cfg, err |-> err]>> ELSE Nil
        /\ earlier' = (Len(l.errs) > 0)
        /\ UNCHANGED env

Next ==
    \/ \E key \in Keys : \E val \in EnvValues(key) : Setenv(key, val)
    \/ \E key \in Keys : Unsetenv(key)
    \/ New

Spec == Init /\ [][Next]_vars

-----------------------------------------------------------------------------
(* What the properties speak of. *)

\* The failures of the aggregated error New returned, in their order.
Failures == IF err = Nil THEN <<>> ELSE err[1].wrapped.joined

FailuresOf(key) == {i \in 1..Len(Failures) : Failures[i].key = key}

\* The place of a variable in the order log level, log format, log output,
\* address, then the five timeouts.
Rank(key) == CHOOSE i \in 1..Len(EnvKeys) : EnvKeys[i] = key

EqualFold(c, d) ==
    \/ c = d
    \/ \E i \in 1..Len(UpperCase) : {c, d} = {UpperCase[i], LowerCase[i]}

\* val is member in some mix of cases, surrounded by whitespace.
Spelling(val, member) ==
    \E p \in 0..Len(val) :
        /\ p + Len(member) <= Len(val)
        /\ \A i \in 1..p : val[i] \in WhiteSpace
        /\ \A i \in 1..Len(member) : EqualFold(val[p + i], member[i])
        /\ \A i \in (p + Len(member) + 1)..Len(val) : val[i] \in WhiteSpace

\* core is val without its surrounding whitespace, every character as it was.
Surrounded(val, core) ==
    /\ core # <<>>
    /\ core[1] \notin WhiteSpace
    /\ core[Len(core)] \notin WhiteSpace
    /\ \E p \in 0..Len(val) :
        /\ p + Len(core) <= Len(val)
        /\ \A i \in 1..p : val[i] \in WhiteSpace
        /\ \A i \in 1..Len(core) : val[p + i] = core[i]
        /\ \A i \in (p + Len(core) + 1)..Len(val) : val[i] \in WhiteSpace

Blank(val) == \A i \in 1..Len(val) : val[i] \in WhiteSpace

Digits == {"0", "1", "2", "3", "4", "5", "6", "7", "8", "9"}

\* Duration text of the kind the defaults are written in: digits and a unit.
WellFormedDuration(val) ==
    /\ Len(val) >= 2
    /\ val[Len(val)] \in {"s", "m", "h"}
    /\ \A i \in 1..(Len(val) - 1) : val[i] \in Digits

Members(key) ==
    IF key = EnvLogLevel
    THEN {LogLevelDebug, LogLevelInfo, LogLevelWarn, LogLevelError}
    ELSE {LogFormatText, LogFormatJSON}

\* The variables that hold a value their field does not admit.
InvalidVars ==
    {key \in DOMAIN env :
        \/ /\ key \in {EnvLogLevel, EnvLogFormat}
           /\ \A m \in Members(key) : ~Spelling(env[key], m)
        \/ /\ key = EnvLogOutput
           /\ Blank(env[key])
        \/ /\ key \in DurationKeys
           /\ ~WellFormedDuration(env[key])}

\* The field of Config a variable configures, and its documented default.
FieldOf(key, c) ==
    CASE key = EnvLogLevel -> c.logLevel
      [] key = EnvLogFormat -> c.logFormat
      [] key = EnvLogOutput -> c.logOutput
      [] key = EnvServerAddress -> c.serverAddress
      [] key = EnvServerReadTimeout -> c.serverReadTimeout
      [] key = EnvServerReadHeaderTimeout -> c.serverReadHeaderTimeout
      [] key = EnvServerWriteTimeout -> c.serverWriteTimeout
      [] key = EnvServerIdleTimeout -> c.serverIdleTimeout
      [] key = EnvServerShutdownTimeout -> c.serverShutdownTimeout

DefaultOf(key) ==
    CASE key = EnvLogLevel -> DefaultLogLevel
      [] key = EnvLogFormat -> DefaultLogFormat
      [] key = EnvLogOutput -> DefaultLogOutput
      [] key = EnvServerAddress -> DefaultServerAddress
      [] key = EnvServerReadTimeout -> DefaultServerReadTimeout
      [] key = EnvServerReadHeaderTimeout -> DefaultServerReadHeaderTimeout
      [] key = EnvServerWriteTimeout -> DefaultServerWriteTimeout
      [] key = EnvServerIdleTimeout -> DefaultServerIdleTimeout
      [] key = EnvServerShutdownTimeout -> DefaultServerShutdownTimeout

-----------------------------------------------------------------------------
(* The properties. *)

\* C1: a call of New ends with a Config and no error when the loader's
\* collection of failures is empty, and with no Config and an error when it is
\* not; never with both, never with neither.
BinaryOutcome ==
    called =>
        \/ Len(l.errs) = 0 /\ cfg # Nil /\ err = Nil
        \/ Len(l.errs) > 0 /\ cfg = Nil /\ err # Nil

\* A call that failed on exactly one variable.
BinaryOutcomeWitness ==
    called /\ Len(l.errs) = 1 /\ cfg = Nil /\ err # Nil

\* C2: when two or more variables hold invalid values, the aggregated error
\* holds exactly one failure for each of them.
AllInvalidReported ==
    (called /\ Cardinality(InvalidVars) >= 2) =>
        /\ err # Nil
        /\ \A key \in InvalidVars : Cardinality(FailuresOf(key)) = 1

\* C3: of any two invalid variables, the failure of the one earlier in the
\* order log level, log format, log output, address, timeouts stands before the
\* failure of the later one in the aggregated error.
FailuresInInvocationOrder ==
    called =>
        \A a \in InvalidVars : \A b \in InvalidVars :
            Rank(a) < Rank(b) =>
                \E i \in FailuresOf(a) : \E j \in FailuresOf(b) : i < j

\* C4: every unset variable leaves the documented default in its field of the
\* returned Config and records no failure.
UnsetYieldsDefault ==
    called =>
        \A key \in Keys \ DOMAIN env :
            /\ FailuresOf(key) = {}
            /\ cfg # Nil => FieldOf(key, cfg[1]) = DefaultOf(key)

\* C5: a LOG_LEVEL or LOG_FORMAT value that spells a member of the allowed set
\* in any case, with any surrounding whitespace, records no failure and parses
\* to that member in lower case.
EnumSpellingsParse ==
    called =>
        \A key \in {EnvLogLevel, EnvLogFormat} \cap DOMAIN env :
            \A m \in Members(key) :
                Spelling(env[key], m) =>
                    /\ FailuresOf(key) = {}
                    /\ cfg # Nil => FieldOf(key, cfg[1]) = m

\* A Config whose level was spelled in another case than the member's.
EnumSpellingsParseWitness ==
    /\ called
    /\ cfg # Nil
    /\ EnvLogLevel \in DOMAIN env
    /\ env[EnvLogLevel] # cfg[1].logLevel
    /\ \E i \in 1..Len(env[EnvLogLevel]) : env[EnvLogLevel][i] \notin WhiteSpace
           /\ ToLowerChar(env[EnvLogLevel][i]) # env[EnvLogLevel][i]

\* C6: a LOG_OUTPUT value that spells stdout or stderr yields that member; any
\* other value that is not blank is taken as a custom destination, its case
\* kept, and records no failure; a blank value records a failure naming
\* LOG_OUTPUT.
LogOutputRule ==
    (called /\ EnvLogOutput \in DOMAIN env) =>
        LET val == env[EnvLogOutput]
            streams == {LogOutputStdout, LogOutputStderr}
        IN  /\ \A m \in streams :
                Spelling(val, m) =>
                    /\ FailuresOf(EnvLogOutput) = {}
                    /\ cfg # Nil => cfg[1].logOutput = m
            /\ ((\A m \in streams : ~Spelling(val, m)) /\ ~Blank(val)) =>
                    /\ FailuresOf(EnvLogOutput) = {}
                    /\ cfg # Nil => Surrounded(val, cfg[1].logOutput)
            /\ Blank(val) =>
                    /\ cfg = Nil
                    /\ Cardinality(FailuresOf(EnvLogOutput)) = 1

\* A Config whose output is a custom destination with a capital in it.
LogOutputRuleWitness ==
    /\ called
    /\ cfg # Nil
    /\ EnvLogOutput \in DOMAIN env
    /\ cfg[1].logOutput \notin {LogOutputStdout, LogOutputStderr}
    /\ ToLower(cfg[1].logOutput) # cfg[1].logOutput
    /\ env[EnvLogOutput] # cfg[1].logOutput

\* C7: a duration variable set to text that is no duration makes the call fail
\* with a failure naming that variable and quoting its value.
MalformedDurationFails ==
    called =>
        \A key \in DurationKeys \cap DOMAIN env :
            ~WellFormedDuration(env[key]) =>
                /\ cfg = Nil
                /\ \E i \in FailuresOf(key) : Failures[i].got = env[key]

\* C8: a set SERVER_ADDRESS records no failure and is the returned Config's
\* server address, unchanged.
AddressOpaque ==
    (called /\ EnvServerAddress \in DOMAIN env) =>
        /\ FailuresOf(EnvServerAddress) = {}
        /\ cfg # Nil => cfg[1].serverAddress = env[EnvServerAddress]

\* C9: a call's outcome is that of its own environment: it equals the outcome
\* of the call before when the environment is the same, every failure it holds
\* quotes the value its variable has now, no variable has two failures, and
\* nothing of a failed call before is left in it.
LoadIdempotent ==
    called =>
        /\ prev # Nil => prev[1] = [cfg |-> cfg, err |-> err]
        /\ \A i \in 1..Len(Failures) :
              /\ Failures[i].key \in DOMAIN env
              /\ Failures[i].got = env[Failures[i].key]
              /\ FailuresOf(Failures[i].key) = {i}
        /\ Failures = l.errs

\* A failing call repeated in the same environment.
LoadIdempotentWitness ==
    called /\ earlier /\ prev # Nil /\ err # Nil

\* C10: a LOG_LEVEL or LOG_FORMAT value that spells no member of the allowed
\* set records exactly one failure, which names the variable and quotes the
\* value as received, whitespace and case included.
EnumFailureQuotesRaw ==
    called =>
        \A key \in {EnvLogLevel, EnvLogFormat} \cap DOMAIN env :
            (\A m \in Members(key) : ~Spelling(env[key], m)) =>
                /\ cfg = Nil
                /\ Cardinality(FailuresOf(key)) = 1
                /\ \A i \in FailuresOf(key) : Failures[i].got = env[key]

\* A failed call on a LOG_FORMAT value that trimming and lower-casing change.
EnumFailureQuotesRawWitness ==
    /\ called
    /\ EnvLogFormat \in DOMAIN env
    /\ FailuresOf(EnvLogFormat) # {}
    /\ ToLower(TrimSpace(env[EnvLogFormat])) # env[EnvLogFormat]
    /\ TrimSpace(env[EnvLogFormat]) # <<>>

====
